---- MODULE Spec2Model ----
(***************************************************************************)
(* DfuTransport (src/api/dfu/dfuTransport.js): the orchestrator of a DFU   *)
(* transfer over BLE.  One public call is in flight at a time; every step  *)
(* of its promise chain that waits for a collaborator (adapter, device     *)
(* info service, control point service, object writer) is one action, and  *)
(* the synchronous continuation that runs when the collaborator answers    *)
(* is part of that action.                                                 *)
(*                                                                         *)
(* Spec is the transport and its calls.  DeviceSpec is sendFirmware called *)
(* again after a failure, against a device that keeps the objects it has   *)
(* executed.  AdapterSpec adds waitForDisconnection and the adapter's      *)
(* deviceDisconnected and connParamUpdateRequest events.                   *)
(***************************************************************************)
EXTENDS Integers, Sequences, FiniteSets, TLC

\* ---------------------------------------------------------------- bounds
MaxLen == 3
MaxObjSize == 2
MaxCount == 2
CrcMod == 8

\* ------------------------------------------------------------- constants
MAX_RETRIES == 3
COMMAND == 1
DATA == 2
DEFAULT_MTU_SIZE == 20

\* An argument that the caller left out (sendInitPacket passes neither offset
\* nor crc32 to _createAndWriteObject).
Undefined == -1

ABORTED == "ABORTED"
NOTIFICATION_TIMEOUT == "NOTIFICATION_TIMEOUT"
INVALID_CRC == "INVALID_CRC"
INVALID_OFFSET == "INVALID_OFFSET"
WRITE_ERROR == "WRITE_ERROR"
COMMAND_ERROR == "COMMAND_ERROR"
NO_DFU_CHARACTERISTIC == "NO_DFU_CHARACTERISTIC"
NOTIFICATION_START_ERROR == "NOTIFICATION_START_ERROR"
INIT_PACKET_TOO_LARGE == "INIT_PACKET_TOO_LARGE"
CONNECT_ERROR == "CONNECT_ERROR"
DISCONNECTION_TIMEOUT == "DISCONNECTION_TIMEOUT"
CONNECTION_PARAM_ERROR == "CONNECTION_PARAM_ERROR"
NoError == "none"

\* What a control point command can fail with, and what the object writer can
\* fail with while it waits for a receipt.
CommandErrors == {COMMAND_ERROR, NOTIFICATION_TIMEOUT}
ReceiptErrors == {NOTIFICATION_TIMEOUT, INVALID_CRC}

\* ------------------------------------------------------------ pure parts
Min(a, b) == IF a < b THEN a ELSE b

Bump(n) == IF n < MaxCount THEN n + 1 ELSE n

\* The payloads the calls are given: n bytes, alternately 1 and 0.
PayloadOf(n) == [i \in 1..n |-> i % 2]
Payloads == {PayloadOf(n) : n \in 1..MaxLen}

Slice(s, from, to) == SubSeq(s, from + 1, to)

\* Running checksum: the checksum of bytes, continued from crc.
RECURSIVE Crc32(_, _)
Crc32(bytes, crc) ==
    IF bytes = <<>> THEN crc
    ELSE Crc32(Tail(bytes), (2 * crc + Head(bytes) + 1) % CrcMod)

\* A checksum that differs from c.
OtherCrc(c) == (c + 1) % CrcMod

RECURSIVE splitArray(_, _)
splitArray(bytes, size) ==
    IF bytes = <<>> THEN <<>>
    ELSE <<SubSeq(bytes, 1, Min(size, Len(bytes)))>>
         \o splitArray(SubSeq(bytes, Min(size, Len(bytes)) + 1, Len(bytes)), size)

OrZero(x) == IF x = Undefined THEN 0 ELSE x

NoProgress == [offset |-> -1, crc32 |-> -1]

\* What the device may answer to Select for a payload: any offset within the
\* payload, with the checksum of that prefix or another one, and a maximum
\* object size.
SelectResponses(payload) ==
    UNION { { [offset |-> o, crc32 |-> c, maximumSize |-> m] :
                c \in {Crc32(Slice(payload, 0, o), 0),
                       OtherCrc(Crc32(Slice(payload, 0, o), 0))},
                m \in 1..MaxObjSize }
            : o \in 0..Len(payload) }

\* What the device may answer to CalculateChecksum after a write that reached
\* progress p: the same offset or another, the same checksum or another.
ChecksumResponses(p) ==
    { [offset |-> o, crc32 |-> c] :
        o \in {p.offset, p.offset + 1}, c \in {p.crc32, OtherCrc(p.crc32)} }

\* ------------------------------------------------- resume-state calculator
\* Mutant of canResume: the reported checksum is not compared.
canResumeAnyCrc(payload, response) == response.offset > 0

canResume(payload, response) ==
    /\ response.offset > 0
    /\ Crc32(Slice(payload, 0, response.offset), 0) = response.crc32

NoState ==
    [isResumable |-> FALSE, offset |-> 0, crc32 |-> 0, maximumSize |-> 0,
     remainingData |-> <<>>, remainingPartialObject |-> <<>>,
     remainingObjects |-> <<>>, error |-> NoError]

InitPacketState(payload, response) ==
    LET resumable == canResume(payload, response)
    IN  [isResumable |-> resumable,
         offset |-> IF resumable THEN response.offset ELSE 0,
         crc32 |-> IF resumable THEN response.crc32 ELSE 0,
         maximumSize |-> response.maximumSize,
         remainingData |-> IF resumable
                           THEN Slice(payload, response.offset, Len(payload))
                           ELSE payload,
         remainingPartialObject |-> <<>>,
         remainingObjects |-> <<>>,
         error |-> IF Len(payload) > response.maximumSize
                   THEN INIT_PACKET_TOO_LARGE ELSE NoError]

\* Mutant of FirmwareState: the partial object is sent again from its start.
FirmwareStateFromBoundary(payload, response) ==
    LET resumable == canResume(payload, response)
        max == response.maximumSize
        start == IF resumable THEN response.offset ELSE 0
        boundary == IF start % max = 0 THEN start
                    ELSE Min(Len(payload), start + max - (start % max))
    IN  [isResumable |-> resumable,
         offset |-> start,
         crc32 |-> IF resumable THEN response.crc32 ELSE 0,
         maximumSize |-> response.maximumSize,
         remainingData |-> Slice(payload, start, Len(payload)),
         remainingPartialObject |-> Slice(payload, start - (start % max), boundary),
         remainingObjects |-> splitArray(Slice(payload, boundary, Len(payload)), max),
         error |-> NoError]

FirmwareState(payload, response) ==
    LET resumable == canResume(payload, response)
        max == response.maximumSize
        start == IF resumable THEN response.offset ELSE 0
        boundary == IF start % max = 0 THEN start
                    ELSE Min(Len(payload), start + max - (start % max))
    IN  [isResumable |-> resumable,
         offset |-> start,
         crc32 |-> IF resumable THEN response.crc32 ELSE 0,
         maximumSize |-> response.maximumSize,
         remainingData |-> Slice(payload, start, Len(payload)),
         remainingPartialObject |-> Slice(payload, start, boundary),
         remainingObjects |-> splitArray(Slice(payload, boundary, Len(payload)), max),
         error |-> NoError]

\* Mutant of StateOf: every call builds a FirmwareState, which checks no size.
StateOfFirmwareOnly(name, payload, response) == FirmwareState(payload, response)

\* getInitPacketState line 300, getFirmwareState line 317
StateOf(name, payload, response) ==
    IF name \in {"sendInitPacket", "getInitPacketState"}
    THEN InitPacketState(payload, response)
    ELSE FirmwareState(payload, response)

\* ----------------------------------------------------------------- state
VARIABLES
    transportParameters,   \* [prnValue, mtuSize], as given to the constructor
    connected,             \* the adapter has a connected device for targetAddress
    isInitialized,         \* this._isInitialized
    controlPointService,   \* which ControlPointService instance (0: none yet)
    objectWriter,          \* the DfuObjectWriter: [gen, prn, mtuSize, abort]
    op,                    \* the public call in flight, "none" when idle
    data,                  \* its payload
    pc,                    \* what the call waits for
    cmd,                   \* the control point command awaiting its response
    result,                \* how the last call ended
    state,                 \* the InitPacketState / FirmwareState of the call
    todo,                  \* objects _createAndWriteObjects has not started yet
    cur,                   \* arguments of the object transfer in progress
    attempts,              \* attempts of _createAndWriteObject
    writing,               \* the writeObject in progress: its arguments, bytes sent
    progress,              \* progress the last writeObject resolved with
    stepError,             \* error of the step that failed in the last transition
    crcResp,               \* the CalculateChecksum response since the last writeObject
    creates,               \* createObject commands issued for the current object
    firstCreate,           \* arguments of its first createObject
    firstWrite,            \* arguments of its first writeObject
    creating,              \* arguments of the createObject issued last
    created,               \* arguments of the createObject that last succeeded
    execs,                 \* offsets of the objects executed by this call
    prevProgress,          \* progress of the object executed last
    touched,               \* which kinds of traffic this call has sent
    sent,                  \* how often this call connected, enabled notifications, ...
    readyAtStart,          \* the engine was initialized when the call began
    selected,              \* the Select response that arrived in the last transition
    wire,                  \* bytes this call put on the data channel, while no step failed
    aborting,              \* abort() was called while this call was in flight
    emitted,               \* offset of the progressUpdate event emitted last in this call
    prior,                 \* what the device keeps of the sendFirmware that failed before
    disconnection,         \* the last waitForDisconnection: [status, instanceId, settled]
    timers,                \* pending timeouts of waitForDisconnection
    listeners,             \* deviceDisconnected listeners of waitForDisconnection
    updates                \* what the last connParamUpdateRequest since the call began led to

eng == <<transportParameters, connected, isInitialized, controlPointService, objectWriter>>
ctl == <<op, data, pc, cmd, result>>
xfer == <<state, todo, cur, attempts, writing, progress>>
hist == <<stepError, crcResp, creates, firstCreate, firstWrite, creating, created, execs,
          prevProgress, touched, sent, readyAtStart>>
log == <<selected, wire, aborting, emitted>>
adapterVars == <<disconnection, timers, listeners, updates>>
vars == <<eng, ctl, xfer, hist, log, prior, adapterVars>>

NoObject == [data |-> <<>>, type |-> 0, offset |-> Undefined, crc32 |-> Undefined,
             unit |-> "none"]
NoWriting == [data |-> <<>>, type |-> 0, offset |-> Undefined, crc32 |-> Undefined,
              pos |-> 0]
NoCreate == [type |-> 0, size |-> -1]
NoWriter == [gen |-> 0, prn |-> 0, mtuSize |-> DEFAULT_MTU_SIZE, abort |-> FALSE]
NoTraffic == [create |-> FALSE, packet |-> FALSE, checksum |-> FALSE, execute |-> FALSE]
NothingSent == [connect |-> 0, notify |-> 0, setPrn |-> 0, select |-> 0]
NoResult == [op |-> "none", outcome |-> "none", error |-> NoError,
             progress |-> NoProgress]
NoBytes == [clean |-> TRUE, bytes |-> <<>>]
Unclean == [clean |-> FALSE, bytes |-> <<>>]
NoEvent == -1
NoWait == [status |-> "none", instanceId |-> "none", settled |-> 0]
NoUpdate == [forwarded |-> FALSE, parameters |-> 0, error |-> NoError]

\* The devices the adapter knows by instanceId: the one at targetAddress and
\* another one; the connection parameters a device may ask for.
TargetId == "target"
OtherId == "other"
Peers == {TargetId, OtherId}
ConnParams == {1, 2}

PrnValues == {0, 1}
MtuSizes == {0, 1}

\* constructor, lines 45-61
Init ==
    /\ transportParameters \in [prnValue : PrnValues, mtuSize : MtuSizes]
    /\ connected \in BOOLEAN
    /\ isInitialized = FALSE
    /\ controlPointService = 0
    /\ objectWriter = NoWriter
    /\ op = "none" /\ data = <<>> /\ pc = "idle" /\ cmd = "none"
    /\ result = NoResult
    /\ state = NoState /\ todo = <<>> /\ cur = NoObject /\ attempts = 0
    /\ writing = NoWriting /\ progress = NoProgress
    /\ stepError = NoError /\ crcResp = NoProgress /\ creates = 0
    /\ firstCreate = NoCreate /\ firstWrite = NoWriting
    /\ creating = NoCreate /\ created = NoCreate
    /\ execs = <<>> /\ prevProgress = NoProgress
    /\ touched = NoTraffic /\ sent = NothingSent /\ readyAtStart = FALSE
    /\ selected = NoProgress /\ wire = NoBytes /\ aborting = FALSE /\ emitted = NoEvent
    /\ prior = NoProgress
    /\ disconnection = NoWait /\ timers = 0 /\ listeners = 0 /\ updates = NoUpdate

\* ------------------------------------------------------- how a call moves
\* The call waits at p, with control point command c outstanding.
Go(name, p, c) ==
    /\ op' = name /\ pc' = p /\ cmd' = c
    /\ UNCHANGED result

\* The promise the caller holds settles: the call is over.
Settle(name, outcome, error, prog) ==
    /\ op' = "none" /\ pc' = "idle" /\ cmd' = "none"
    /\ result' = [op |-> name, outcome |-> outcome, error |-> error, progress |-> prog]

objectVars == <<cur, todo, attempts, creates, firstCreate, creating, created>>
writeVars == <<writing, progress, firstWrite, crcResp>>
doneVars == <<execs, prevProgress>>

\* What follows a resolved init(): nothing for init() itself, selectObject for
\* getInitPacketState (line 295) and getFirmwareState (line 312).
AfterInit(name, s) ==
    IF name = "init"
    THEN /\ Settle(name, "resolved", NoError, NoProgress)
         /\ sent' = s
    ELSE /\ Go(name, "command", "Select")
         /\ sent' = [s EXCEPT !.select = Bump(@)]

\* Mutant of InitEntry: init() without its guard on _isInitialized.
InitEntryUnguarded(name, s) ==
    IF connected
    THEN /\ Go(name, "getControlPointId", "none")
         /\ sent' = s
    ELSE /\ Go(name, "connect", "none")
         /\ sent' = [s EXCEPT !.connect = Bump(@)]

\* _connectIfNeeded, lines 143-151
ConnectIfNeeded(name, s) ==
    IF connected
    THEN /\ Go(name, "getControlPointId", "none")
         /\ sent' = s
    ELSE /\ Go(name, "connect", "none")
         /\ sent' = [s EXCEPT !.connect = Bump(@)]

\* Mutant of InitEntry: an engine that has its services counts as ready.
InitEntryWithServices(name, s) ==
    IF isInitialized \/ controlPointService > 0
    THEN AfterInit(name, s)
    ELSE ConnectIfNeeded(name, s)

\* init(), lines 69-82: up to the first collaborator it waits for
InitEntry(name, s) ==
    IF isInitialized
    THEN AfterInit(name, s)
    ELSE ConnectIfNeeded(name, s)

\* A public call begins (sendInitPacket 246-248, sendFirmware 266-268,
\* getInitPacketState 293-294, getFirmwareState 310-311, init 69).
Begin(name, d) ==
    /\ data' = d
    /\ readyAtStart' = isInitialized
    /\ state' = NoState /\ todo' = <<>> /\ cur' = NoObject /\ attempts' = 0
    /\ writing' = NoWriting /\ progress' = NoProgress
    /\ stepError' = NoError /\ crcResp' = NoProgress /\ creates' = 0
    /\ firstCreate' = NoCreate /\ firstWrite' = NoWriting
    /\ creating' = NoCreate /\ created' = NoCreate
    /\ execs' = <<>> /\ prevProgress' = NoProgress
    /\ touched' = NoTraffic
    /\ selected' = NoProgress /\ wire' = NoBytes /\ aborting' = FALSE
    /\ emitted' = NoEvent /\ updates' = NoUpdate /\ disconnection' = NoWait
    /\ InitEntry(name, NothingSent)
    /\ UNCHANGED <<eng, timers, listeners>>

init ==
    /\ op = "none"
    /\ Begin("init", <<>>)
    /\ prior' = NoProgress

sendInitPacket ==
    /\ op = "none"
    /\ \E d \in Payloads : Begin("sendInitPacket", d)
    /\ prior' = NoProgress

sendFirmware ==
    /\ op = "none"
    /\ \E d \in Payloads : Begin("sendFirmware", d)
    /\ prior' = NoProgress

getInitPacketState ==
    /\ op = "none"
    /\ \E d \in Payloads : Begin("getInitPacketState", d)
    /\ prior' = NoProgress

getFirmwareState ==
    /\ op = "none"
    /\ \E d \in Payloads : Begin("getFirmwareState", d)
    /\ prior' = NoProgress

\* A step of init() fails: the chain rejects (no catch on lines 82-96).
InitFails(error) ==
    /\ Settle(op, "rejected", error, NoProgress)
    /\ stepError' = error
    /\ selected' = NoProgress
    /\ UNCHANGED <<data, xfer, crcResp, creates, firstCreate, firstWrite, creating,
                   created, execs, prevProgress, touched, sent, readyAtStart,
                   wire, aborting, emitted, prior, adapterVars>>

\* The init steps leave the transfer alone.
InitStepFrame ==
    /\ stepError' = NoError
    /\ selected' = NoProgress
    /\ UNCHANGED <<data, xfer, crcResp, creates, firstCreate, firstWrite, creating,
                   created, execs, prevProgress, touched, readyAtStart,
                   wire, aborting, emitted, prior, adapterVars>>

\* adapter.connect calls back, lines 194-196
ConnectDone ==
    /\ pc = "connect"
    /\ \/ /\ connected' = TRUE
          /\ Go(op, "getControlPointId", "none")
          /\ InitStepFrame
          /\ UNCHANGED <<transportParameters, isInitialized, controlPointService,
                         objectWriter, sent>>
       \/ /\ InitFails(CONNECT_ERROR)
          /\ UNCHANGED eng

\* getCharacteristicId for the control point answers, lines 120-121
ControlPointIdFound ==
    /\ pc = "getControlPointId"
    /\ \/ /\ Go(op, "getPacketId", "none")
          /\ InitStepFrame
          /\ UNCHANGED <<eng, sent>>
       \/ /\ InitFails(NO_DFU_CHARACTERISTIC)
          /\ UNCHANGED eng

\* getCharacteristicId for the packet characteristic answers (lines 122-130);
\* init then makes the services and asks for notifications (lines 84-92).
PacketIdFound ==
    /\ pc = "getPacketId"
    /\ \/ /\ controlPointService' = Bump(controlPointService)
          /\ objectWriter' = [NoWriter EXCEPT !.gen = Bump(objectWriter.gen)]
          /\ Go(op, "startNotifications", "none")
          /\ InitStepFrame
          /\ UNCHANGED <<transportParameters, connected, isInitialized, sent>>
       \/ /\ InitFails(NO_DFU_CHARACTERISTIC)
          /\ UNCHANGED eng

\* init(), lines 95-96, and what the caller chained to it
FinishInit(s) ==
    /\ objectWriter' = [objectWriter EXCEPT !.mtuSize =
            IF transportParameters.mtuSize # 0 THEN transportParameters.mtuSize ELSE @]
    /\ isInitialized' = TRUE
    /\ AfterInit(op, s)

\* _setPrn, lines 338-342: it begins with init()
setPrn(s) ==
    IF isInitialized
    THEN /\ Go(op, "command", "SetPRN")
         /\ sent' = [s EXCEPT !.setPrn = Bump(@)]
    ELSE ConnectIfNeeded(op, s)

\* startCharacteristicsNotifications calls back (lines 365-371); init goes on
\* on line 94.
NotificationsStarted ==
    /\ pc = "startNotifications"
    /\ \/ /\ InitStepFrame
          /\ LET s == [sent EXCEPT !.notify = Bump(@)]
             IN  IF transportParameters.prnValue # 0
                 THEN /\ setPrn(s)
                      /\ UNCHANGED <<isInitialized, objectWriter>>
                 ELSE FinishInit(s)
          /\ UNCHANGED <<transportParameters, connected, controlPointService>>
       \/ /\ InitFails(NOTIFICATION_START_ERROR)
          /\ UNCHANGED eng

\* ------------------------------------------------------- object transfer
\* Mutants of ShouldRetry: one attempt too many; no test of the error code.
ShouldRetryOnceMore(n, error) ==
    /\ n <= MAX_RETRIES
    /\ error # ABORTED
    /\ error # NOTIFICATION_TIMEOUT

ShouldRetryAnyError(n, error) == n < MAX_RETRIES

\* Mutant of ShouldRetry: an aborted attempt is tried again.
ShouldRetryAborted(n, error) ==
    /\ n < MAX_RETRIES
    /\ error # NOTIFICATION_TIMEOUT

\* _shouldRetry, lines 464-471
ShouldRetry(n, error) ==
    /\ n < MAX_RETRIES
    /\ error # ABORTED
    /\ error # NOTIFICATION_TIMEOUT

\* Mutant of ValidateProgress: the checksum is not compared.
ValidateOffsetOnly(progressInfo, response) ==
    IF progressInfo.offset # response.offset THEN INVALID_OFFSET ELSE NoError

\* Mutant of ValidateProgress: the checksum is compared first.
ValidateCrcFirst(progressInfo, response) ==
    IF progressInfo.crc32 # response.crc32 THEN INVALID_CRC
    ELSE IF progressInfo.offset # response.offset THEN INVALID_OFFSET
    ELSE NoError

\* _validateProgress, lines 475-485: the error it throws for a response
ValidateProgress(progressInfo, response) ==
    IF progressInfo.offset # response.offset THEN INVALID_OFFSET
    ELSE IF progressInfo.crc32 # response.crc32 THEN INVALID_CRC
    ELSE NoError

\* Mutant of tryWrite: a retry writes from offset 0 again.
tryWriteFromZero(c, n) ==
    [create |-> [type |-> c.type, size |-> Len(c.data)],
     write |-> [data |-> c.data, type |-> c.type,
                offset |-> IF n > 0 THEN 0 ELSE c.offset,
                crc32 |-> IF n > 0 THEN 0 ELSE c.crc32, pos |-> 0]]

\* tryWrite, lines 427-429: what attempt n gives createObject and writeObject
tryWrite(c, n) ==
    [create |-> [type |-> c.type, size |-> Len(c.data)],
     write |-> [data |-> c.data, type |-> c.type, offset |-> c.offset,
                crc32 |-> c.crc32, pos |-> 0]]

\* The progress writeObject resolves with: where it started plus what it wrote.
WriterProgress(w) ==
    [offset |-> OrZero(w.offset) + Len(w.data),
     crc32 |-> Crc32(w.data, OrZero(w.crc32))]

\* _createAndWriteObject, lines 424-428 and 440: the first tryWrite of an object
NewObject(c, rest) ==
    /\ Go(op, "command", "Create")
    /\ cur' = c /\ todo' = rest /\ attempts' = 0 /\ creates' = 1
    /\ firstCreate' = tryWrite(c, 0).create
    /\ creating' = tryWrite(c, 0).create
    /\ created' = NoCreate
    /\ writing' = NoWriting /\ progress' = NoProgress
    /\ firstWrite' = NoWriting /\ crcResp' = NoProgress
    /\ touched' = [touched EXCEPT !.create = TRUE]

\* tryWrite called again from the catch, line 434
Retry(n, response) ==
    /\ Go(op, "command", "Create")
    /\ attempts' = n /\ creates' = creates + 1
    /\ creating' = tryWrite(cur, n).create
    /\ created' = NoCreate
    /\ writing' = NoWriting /\ progress' = NoProgress /\ crcResp' = response
    /\ touched' = [touched EXCEPT !.create = TRUE]
    /\ UNCHANGED <<cur, todo, firstCreate, firstWrite>>

\* Mutant of Fail: the catch also wraps a plain _writeObject.
FailRetriesAll(error, response) ==
    /\ stepError' = error
    /\ wire' = Unclean
    /\ IF ShouldRetry(attempts + 1, error)
       THEN Retry(attempts + 1, response)
       ELSE /\ Settle(op, "rejected", error, NoProgress)
            /\ attempts' = attempts + 1
            /\ crcResp' = response
            /\ UNCHANGED <<cur, todo, creates, firstCreate, creating, created,
                           writing, progress, firstWrite, touched>>

\* Mutant of Fail: the call is rejected with COMMAND_ERROR whatever failed.
FailSubstitutes(error, response) ==
    /\ stepError' = error
    /\ wire' = Unclean
    /\ IF cur.unit = "create" /\ ShouldRetry(attempts + 1, error)
       THEN Retry(attempts + 1, response)
       ELSE /\ Settle(op, "rejected", COMMAND_ERROR, NoProgress)
            /\ attempts' = IF cur.unit = "create" THEN attempts + 1 ELSE attempts
            /\ crcResp' = response
            /\ UNCHANGED <<cur, todo, creates, firstCreate, creating, created,
                           writing, progress, firstWrite, touched>>

\* A step of an object transfer fails with error.  Inside _createAndWriteObject
\* the catch of lines 431-438 decides; a plain _writeObject (lines 252, 278)
\* has no catch and the call rejects.
Fail(error, response) ==
    /\ stepError' = error
    /\ wire' = Unclean
    /\ IF cur.unit = "create" /\ ShouldRetry(attempts + 1, error)
       THEN Retry(attempts + 1, response)
       ELSE /\ Settle(op, "rejected", error, NoProgress)
            /\ attempts' = IF cur.unit = "create" THEN attempts + 1 ELSE attempts
            /\ crcResp' = response
            /\ UNCHANGED <<cur, todo, creates, firstCreate, creating, created,
                           writing, progress, firstWrite, touched>>

\* Mutant of WriteObject: the checksum is asked for while the writer is given
\* the object, not when it has written it.
WriteObjectUnawaited(w) ==
    /\ writing' = w
    /\ firstWrite' = IF firstWrite = NoWriting THEN w ELSE firstWrite
    /\ crcResp' = NoProgress
    /\ touched' = [touched EXCEPT !.checksum = TRUE]
    /\ IF w.data = <<>>
       THEN /\ progress' = WriterProgress(w)
            /\ Go(op, "command", "CalculateChecksum")
       ELSE /\ progress' = NoProgress
            /\ Go(op, "packet", "CalculateChecksum")

\* _writeObject, line 456: the writer is given an object.  With nothing to
\* write it resolves at once and _validateProgress (line 474) asks for the
\* checksum.
WriteObject(w) ==
    /\ writing' = w
    /\ firstWrite' = IF firstWrite = NoWriting THEN w ELSE firstWrite
    /\ crcResp' = NoProgress
    /\ IF w.data = <<>>
       THEN /\ progress' = WriterProgress(w)
            /\ Go(op, "command", "CalculateChecksum")
            /\ touched' = [touched EXCEPT !.checksum = TRUE]
       ELSE /\ progress' = NoProgress
            /\ Go(op, "packet", "none")
            /\ UNCHANGED touched

\* Mutant of CreateAndWriteObjects: the checksum is not handed on.
CreateAndWriteObjectsNoCrc(objects, type, offset, crc32) ==
    IF objects = <<>>
    THEN /\ Settle(op, "resolved", NoError, [offset |-> offset, crc32 |-> crc32])
         /\ UNCHANGED <<objectVars, writeVars, touched>>
    ELSE NewObject([data |-> Head(objects), type |-> type, offset |-> offset,
                    crc32 |-> Undefined, unit |-> "create"], Tail(objects))

\* _createAndWriteObjects, lines 405-411: the reduce over the objects left
CreateAndWriteObjects(objects, type, offset, crc32) ==
    IF objects = <<>>
    THEN /\ Settle(op, "resolved", NoError, [offset |-> offset, crc32 |-> crc32])
         /\ UNCHANGED <<objectVars, writeVars, touched>>
    ELSE NewObject([data |-> Head(objects), type |-> type, offset |-> offset,
                    crc32 |-> crc32, unit |-> "create"], Tail(objects))

\* Mutant of Resume: the remainder is written at offset 0 with crc32 0.
ResumeAtZero(remaining, type, rest) ==
    /\ cur' = [data |-> remaining, type |-> type, offset |-> 0, crc32 |-> 0,
               unit |-> "write"]
    /\ todo' = rest /\ attempts' = 0 /\ creates' = 0
    /\ firstCreate' = NoCreate /\ creating' = NoCreate /\ created' = NoCreate
    /\ WriteObject([data |-> remaining, type |-> type, offset |-> 0, crc32 |-> 0,
                    pos |-> 0])

\* Mutant of Resume: with nothing left of the object the call goes on with
\* the objects after it.
ResumeSkipsEmpty(remaining, type, rest) ==
    IF remaining = <<>>
    THEN CreateAndWriteObjects(rest, type, state'.offset, state'.crc32)
    ELSE /\ cur' = [data |-> remaining, type |-> type, offset |-> state'.offset,
                    crc32 |-> state'.crc32, unit |-> "write"]
         /\ todo' = rest /\ attempts' = 0 /\ creates' = 0
         /\ firstCreate' = NoCreate /\ creating' = NoCreate /\ created' = NoCreate
         /\ WriteObject([data |-> remaining, type |-> type, offset |-> state'.offset,
                         crc32 |-> state'.crc32, pos |-> 0])

\* A plain _writeObject of what a resumable state leaves (lines 252, 278)
Resume(remaining, type, rest) ==
    /\ cur' = [data |-> remaining, type |-> type, offset |-> state'.offset,
               crc32 |-> state'.crc32, unit |-> "write"]
    /\ todo' = rest /\ attempts' = 0 /\ creates' = 0
    /\ firstCreate' = NoCreate /\ creating' = NoCreate /\ created' = NoCreate
    /\ WriteObject([data |-> remaining, type |-> type, offset |-> state'.offset,
                    crc32 |-> state'.crc32, pos |-> 0])

\* sendInitPacket, lines 249-256
sendInitPacketThen(st) ==
    IF st.isResumable
    THEN Resume(st.remainingData, COMMAND, <<>>)
    ELSE NewObject([data |-> st.remainingData, type |-> COMMAND, offset |-> Undefined,
                    crc32 |-> Undefined, unit |-> "create"], <<>>)

\* Mutant of sendFirmwareThen: a resumable state is treated like a new one.
sendFirmwareThenCreates(st) ==
    CreateAndWriteObjects(st.remainingObjects, DATA, st.offset, st.crc32)

\* sendFirmware, lines 269-283
sendFirmwareThen(st) ==
    IF st.isResumable
    THEN Resume(st.remainingPartialObject, DATA, st.remainingObjects)
    ELSE CreateAndWriteObjects(st.remainingObjects, DATA, st.offset, st.crc32)

\* What no step of the transfer changes.
TransferFrame == UNCHANGED <<data, sent, readyAtStart, transportParameters, connected,
                             isInitialized, controlPointService, aborting, prior,
                             adapterVars>>

\* selectObject answers: getInitPacketState 296-301, getFirmwareState 313-318
SelectAnswered ==
    /\ pc = "command" /\ cmd = "Select"
    /\ TransferFrame
    /\ UNCHANGED <<objectWriter, doneVars, wire, emitted>>
    /\ \/ \E response \in SelectResponses(data) :
            LET st == StateOf(op, data, response)
            IN  /\ state' = st
                /\ selected' = [offset |-> response.offset, crc32 |-> response.crc32]
                /\ stepError' = st.error
                /\ IF st.error # NoError
                   THEN /\ Settle(op, "rejected", st.error, NoProgress)
                        /\ UNCHANGED <<objectVars, writeVars, touched>>
                   ELSE IF op \in {"getInitPacketState", "getFirmwareState"}
                   THEN /\ Settle(op, "resolved", NoError,
                                  [offset |-> st.offset, crc32 |-> st.crc32])
                        /\ UNCHANGED <<objectVars, writeVars, touched>>
                   ELSE IF op = "sendInitPacket"
                   THEN sendInitPacketThen(st)
                   ELSE sendFirmwareThen(st)
       \/ \E error \in CommandErrors :
            /\ Settle(op, "rejected", error, NoProgress)
            /\ stepError' = error
            /\ selected' = NoProgress
            /\ UNCHANGED <<state, objectVars, writeVars, touched>>

\* createObject answers, lines 428-431
CreateAnswered ==
    /\ pc = "command" /\ cmd = "Create"
    /\ TransferFrame
    /\ UNCHANGED <<objectWriter, doneVars, state, emitted>>
    /\ selected' = NoProgress
    /\ \/ /\ created' = creating
          /\ stepError' = NoError
          /\ UNCHANGED wire
          /\ WriteObject(tryWrite(cur, attempts).write)
          /\ UNCHANGED <<cur, todo, attempts, creates, firstCreate, creating>>
       \/ \E error \in CommandErrors : Fail(error, crcResp)

\* Mutant of packetWritten: the offset is counted from the start of the object.
packetWrittenInObject(w, pos) ==
    IF w.type = DATA THEN pos ELSE emitted

\* The packetWritten listener (lines 89-91) and _emitTransferEvent (lines
\* 488-496): the offset of the progressUpdate event for a packet that took the
\* object w to pos bytes; only the events of DATA objects carry an offset.
packetWritten(w, pos) ==
    IF w.type = DATA THEN OrZero(w.offset) + pos ELSE emitted

\* The writer sends the next packet of the object, unless it was told to abort.
WritePacket ==
    /\ pc = "packet"
    /\ TransferFrame
    /\ UNCHANGED <<doneVars, state>>
    /\ selected' = NoProgress
    /\ IF objectWriter.abort
       THEN /\ objectWriter' = [objectWriter EXCEPT !.abort = FALSE]
            /\ Fail(ABORTED, crcResp)
            /\ UNCHANGED emitted
       ELSE /\ UNCHANGED objectWriter
            /\ \/ LET n == Min(objectWriter.mtuSize, Len(writing.data) - writing.pos)
                      pos == writing.pos + n
                      packets == (pos + objectWriter.mtuSize - 1) \div objectWriter.mtuSize
                      due == \/ pos = Len(writing.data)
                             \/ /\ objectWriter.prn > 0
                                /\ packets % objectWriter.prn = 0
                  IN  /\ writing' = [writing EXCEPT !.pos = pos]
                      /\ wire' = IF wire.clean
                                 THEN [wire EXCEPT !.bytes =
                                        @ \o Slice(writing.data, writing.pos, pos)]
                                 ELSE wire
                      /\ emitted' = packetWritten(writing, pos)
                      /\ touched' = [touched EXCEPT !.packet = TRUE]
                      /\ Go(op, IF due THEN "receipt" ELSE "packet", "none")
                      /\ stepError' = NoError
                      /\ UNCHANGED <<objectVars, progress, firstWrite, crcResp>>
               \/ /\ Fail(WRITE_ERROR, crcResp)
                  /\ UNCHANGED emitted

\* The receipt the writer waits for arrives, or does not; after the last packet
\* writeObject resolves and _writeObject goes on (lines 457-458, 474).
ReceiptArrives ==
    /\ pc = "receipt"
    /\ TransferFrame
    /\ UNCHANGED <<doneVars, state, emitted>>
    /\ selected' = NoProgress
    /\ IF objectWriter.abort
       THEN /\ objectWriter' = [objectWriter EXCEPT !.abort = FALSE]
            /\ Fail(ABORTED, crcResp)
       ELSE /\ UNCHANGED objectWriter
            /\ \/ /\ stepError' = NoError
                  /\ UNCHANGED <<objectVars, writing, firstWrite, crcResp, wire>>
                  /\ IF writing.pos = Len(writing.data)
                     THEN /\ progress' = WriterProgress(writing)
                          /\ Go(op, "command", "CalculateChecksum")
                          /\ touched' = [touched EXCEPT !.checksum = TRUE]
                     ELSE /\ Go(op, "packet", "none")
                          /\ UNCHANGED <<progress, touched>>
               \/ \E error \in ReceiptErrors : Fail(error, crcResp)

\* calculateChecksum answers: _validateProgress 475-485, then _writeObject 459
ChecksumAnswered ==
    /\ pc = "command" /\ cmd = "CalculateChecksum"
    /\ TransferFrame
    /\ UNCHANGED <<objectWriter, doneVars, state, emitted>>
    /\ selected' = NoProgress
    /\ \/ \E response \in ChecksumResponses(progress) :
            IF ValidateProgress(progress, response) = NoError
            THEN /\ crcResp' = response
                 /\ stepError' = NoError
                 /\ Go(op, "command", "Execute")
                 /\ touched' = [touched EXCEPT !.execute = TRUE]
                 /\ UNCHANGED <<objectVars, writing, progress, firstWrite, wire>>
            ELSE Fail(ValidateProgress(progress, response), response)
       \/ \E error \in CommandErrors : Fail(error, crcResp)

\* execute answers: _writeObject 459-460; then the caller of the object
\* transfer goes on: sendInitPacket resolves, sendFirmware takes the next
\* object (lines 278-279, 407-408).
ExecuteAnswered ==
    /\ pc = "command" /\ cmd = "Execute"
    /\ TransferFrame
    /\ UNCHANGED <<objectWriter, state, emitted>>
    /\ selected' = NoProgress
    /\ \/ /\ execs' = Append(execs, progress.offset)
          /\ prevProgress' = progress
          /\ stepError' = NoError
          /\ UNCHANGED wire
          /\ IF op = "sendInitPacket"
             THEN /\ Settle(op, "resolved", NoError, progress)
                  /\ UNCHANGED <<objectVars, writeVars, touched>>
             ELSE CreateAndWriteObjects(todo, DATA, progress.offset, progress.crc32)
       \/ /\ \E error \in CommandErrors : Fail(error, crcResp)
          /\ UNCHANGED doneVars

\* setPRN answers: _setPrn 340-341, then init 95-96.  No behaviour gets here:
\* _setPrn is only called by an init() that has not set _isInitialized yet, so
\* its own init() starts over and SetPRN is never sent.
PrnAnswered ==
    /\ pc = "command" /\ cmd = "SetPRN"
    /\ InitStepFrame
    /\ UNCHANGED <<transportParameters, connected, controlPointService>>
    /\ objectWriter' = [objectWriter EXCEPT
            !.prn = transportParameters.prnValue,
            !.mtuSize = IF transportParameters.mtuSize # 0
                        THEN transportParameters.mtuSize ELSE @]
    /\ isInitialized' = TRUE
    /\ AfterInit(op, sent)

\* abort(), lines 326-328 (a TypeError and no effect before the first writer
\* exists)
abort ==
    /\ objectWriter.gen > 0
    /\ objectWriter' = [objectWriter EXCEPT !.abort = TRUE]
    /\ aborting' = (aborting \/ (isInitialized /\ op \in {"sendInitPacket", "sendFirmware"}))
    /\ selected' = NoProgress
    /\ UNCHANGED <<transportParameters, connected, isInitialized, controlPointService,
                   ctl, xfer, hist, wire, emitted, prior, adapterVars>>

Next ==
    \/ init
    \/ sendInitPacket
    \/ sendFirmware
    \/ getInitPacketState
    \/ getFirmwareState
    \/ abort
    \/ ConnectDone
    \/ ControlPointIdFound
    \/ PacketIdFound
    \/ NotificationsStarted
    \/ SelectAnswered
    \/ CreateAnswered
    \/ WritePacket
    \/ ReceiptArrives
    \/ ChecksumAnswered
    \/ ExecuteAnswered

Spec == Init /\ [][Next]_vars

\* ------------------------------------------------ the adapter's events
\* What waitForDisconnection and the handlers of adapter events leave alone.
AdapterFrame ==
    /\ selected' = NoProgress
    /\ UNCHANGED <<transportParameters, isInitialized, controlPointService, objectWriter,
                   data, xfer, hist, wire, aborting, emitted, prior>>

\* resolve or reject of the promise of waitForDisconnection (lines 226, 231):
\* the first one settles it.
WaitSettles(outcome, error) ==
    /\ disconnection' = [disconnection EXCEPT
            !.status = IF @ = "pending" THEN outcome ELSE @,
            !.settled = Bump(@)]
    /\ IF op = "waitForDisconnection"
       THEN Settle(op, outcome, error, NoProgress)
       ELSE UNCHANGED ctl

\* waitForDisconnection, lines 207-236
waitForDisconnection ==
    /\ op = "none"
    /\ AdapterFrame
    /\ UNCHANGED <<connected, updates, data>>
    /\ IF ~connected
       THEN /\ disconnection' = [status |-> "resolved", instanceId |-> "none",
                                 settled |-> 1]
            /\ Settle("waitForDisconnection", "resolved", NoError, NoProgress)
            /\ UNCHANGED <<timers, listeners>>
       ELSE /\ disconnection' = [status |-> "pending", instanceId |-> TargetId,
                                 settled |-> 0]
            /\ timers' = timers + 1
            /\ listeners' = listeners + 1
            /\ Go("waitForDisconnection", "disconnection", "none")

\* Mutants of disconnectionHandler: the device is not looked at; the timeout is
\* not cleared.
disconnectionHandlerAnyDevice(device) ==
    /\ timers' = 0
    /\ listeners' = listeners - 1
    /\ WaitSettles("resolved", NoError)

disconnectionHandlerKeepsTimer(device) ==
    IF device = disconnection.instanceId
    THEN /\ timers' = timers
         /\ listeners' = listeners - 1
         /\ WaitSettles("resolved", NoError)
    ELSE UNCHANGED <<disconnection, timers, listeners, ctl>>

\* disconnectionHandler, lines 220-227
disconnectionHandler(device) ==
    IF device = disconnection.instanceId
    THEN /\ timers' = 0
         /\ listeners' = listeners - 1
         /\ WaitSettles("resolved", NoError)
    ELSE UNCHANGED <<disconnection, timers, listeners, ctl>>

\* The adapter emits deviceDisconnected for a device: the device at
\* targetAddress is not connected any more (_getConnectedDevice, line 167), and
\* a listener of waitForDisconnection runs.
Disconnected(device) ==
    /\ connected' = IF device = TargetId THEN FALSE ELSE connected
    /\ IF listeners > 0
       THEN disconnectionHandler(device)
       ELSE UNCHANGED <<disconnection, timers, listeners, ctl>>

deviceDisconnected ==
    \E device \in Peers :
        /\ device = TargetId => connected
        /\ Disconnected(device)
        /\ AdapterFrame
        /\ UNCHANGED updates

\* The timeout of waitForDisconnection fires, lines 229-233
disconnectionTimeout ==
    /\ timers > 0
    /\ timers' = timers - 1
    /\ listeners' = IF listeners > 0 THEN listeners - 1 ELSE 0
    /\ WaitSettles("rejected", DISCONNECTION_TIMEOUT)
    /\ AdapterFrame
    /\ UNCHANGED <<connected, updates>>

\* Mutant of handleConnParamUpdateRequest: a failed update aborts the writer.
handleConnParamUpdateRequestAborts(device, connectionParameters, err) ==
    /\ updates' = IF connected /\ device = TargetId
                  THEN [forwarded |-> TRUE, parameters |-> connectionParameters,
                        error |-> IF err THEN CONNECTION_PARAM_ERROR ELSE NoError]
                  ELSE NoUpdate
    /\ objectWriter' = [objectWriter EXCEPT !.abort = @ \/ err]
    /\ selected' = NoProgress
    /\ UNCHANGED <<transportParameters, isInitialized, controlPointService,
                   data, xfer, hist, wire, aborting, emitted, prior>>

\* _handleConnParamUpdateRequest, lines 382-392: the request of the connected
\* target goes to adapter.updateConnectionParameters, whose callback throws
\* CONNECTION_PARAM_ERROR when the adapter reports an error.
handleConnParamUpdateRequest(device, connectionParameters, err) ==
    /\ updates' = IF connected /\ device = TargetId
                  THEN [forwarded |-> TRUE, parameters |-> connectionParameters,
                        error |-> IF err THEN CONNECTION_PARAM_ERROR ELSE NoError]
                  ELSE NoUpdate
    /\ AdapterFrame

connParamUpdateRequest ==
    \E device \in Peers, connectionParameters \in ConnParams, err \in BOOLEAN :
        /\ handleConnParamUpdateRequest(device, connectionParameters, err)
        /\ UNCHANGED <<connected, ctl, disconnection, timers, listeners>>

AdapterNext ==
    \/ sendInitPacket
    \/ waitForDisconnection
    \/ deviceDisconnected
    \/ disconnectionTimeout
    \/ connParamUpdateRequest
    \/ ConnectDone
    \/ ControlPointIdFound
    \/ PacketIdFound
    \/ NotificationsStarted
    \/ SelectAnswered
    \/ CreateAnswered
    \/ WritePacket
    \/ ReceiptArrives
    \/ ChecksumAnswered
    \/ ExecuteAnswered

\* The adapter's events are looked at with a transport that was given neither
\* a prnValue nor an mtuSize.
AdapterInit ==
    /\ Init
    /\ transportParameters = [prnValue |-> 0, mtuSize |-> 0]

AdapterSpec == AdapterInit /\ [][AdapterNext]_vars

\* ------------------------------------------- a device that keeps its objects
\* sendFirmware is called again with the payload of a sendFirmware that failed.
\* prior is what the device has executed of that payload: the objects the
\* failed call executed, or what it had before when that call got no further
\* than its Select or the rest of a resumed object; a call that created the
\* first object anew and executed nothing leaves nothing known.
sendFirmwareAgain ==
    /\ op = "none" /\ result.op = "sendFirmware" /\ result.outcome = "rejected"
    /\ LET kept == IF execs # <<>> THEN prevProgress
                   ELSE IF touched.create THEN NoProgress
                   ELSE prior
       IN  /\ kept # NoProgress
           /\ prior' = kept
    /\ Begin("sendFirmware", data)

\* What such a device answers to the Select of the next call: a position at or
\* after the objects it has executed, whose checksum is that of the payload
\* unless bytes of an object in progress were added to it.
DeviceReports ==
    (prior # NoProgress /\ selected' # NoProgress) =>
        /\ selected'.offset >= prior.offset
        /\ selected'.offset = prior.offset =>
              selected'.crc32 = Crc32(Slice(data, 0, prior.offset), 0)

DeviceSelectAnswered ==
    /\ SelectAnswered
    /\ DeviceReports

DeviceNext ==
    \/ sendFirmware
    \/ sendFirmwareAgain
    \/ ConnectDone
    \/ ControlPointIdFound
    \/ PacketIdFound
    \/ NotificationsStarted
    \/ DeviceSelectAnswered
    \/ CreateAnswered
    \/ WritePacket
    \/ ReceiptArrives
    \/ ChecksumAnswered
    \/ ExecuteAnswered

DeviceSpec == Init /\ [][DeviceNext]_vars

\* ---------------------------------------------------------------- claims
\* The call a state is about: the one in flight, or the one that ended last.
TheCall == IF op = "none" THEN result.op ELSE op
Sending == TheCall \in {"sendInitPacket", "sendFirmware"}
Terminal == {ABORTED, NOTIFICATION_TIMEOUT}
WriteArgs(w) == <<w.data, w.type, w.offset, w.crc32>>
\* The object _createAndWriteObjects is at, counted from 1.
ObjectIndex == Len(state.remainingObjects) - Len(todo)

\* C1: while sendInitPacket or sendFirmware has an Execute outstanding, the
\* writeObject of that attempt has resolved with a progress, and the
\* CalculateChecksum response received after that write carries exactly that
\* offset and crc32; an attempt whose cross-check failed, or whose command
\* failed, has no Execute outstanding.
C1_ExecuteOnlyAfterCrossCheck ==
    /\ cmd = "Execute" =>
        /\ Sending
        /\ writing.pos = Len(writing.data)
        /\ progress = WriterProgress(writing)
        /\ crcResp.offset = progress.offset
        /\ crcResp.crc32 = progress.crc32
    /\ stepError # NoError => cmd # "Execute"

C1_Witness ==
    /\ cmd = "Execute" /\ op = "sendFirmware"
    /\ Len(execs) = 1 /\ attempts = 1 /\ progress.offset = Len(data)

\* C2: in sendFirmware the objects go one after another in payload order: while
\* object i of the remaining objects is being created and written, exactly the
\* objects before it (and the resumed remainder) were executed, the offsets of
\* the executed objects increase, an outstanding Execute is beyond all of them,
\* and the object starts at the progress the previous one returned.
C2_ObjectsInOrder ==
    op = "sendFirmware" /\ cur.unit = "create" =>
        /\ ObjectIndex >= 1
        /\ cur.data = state.remainingObjects[ObjectIndex]
        /\ Len(execs) = ObjectIndex - 1 + (IF state.isResumable THEN 1 ELSE 0)
        /\ \A i, j \in 1..Len(execs) : i < j => execs[i] < execs[j]
        /\ cmd = "Execute" => \A i \in 1..Len(execs) : execs[i] < progress.offset
        /\ Len(execs) > 0 =>
            /\ cur.offset = prevProgress.offset
            /\ cur.crc32 = prevProgress.crc32
            /\ prevProgress.offset = execs[Len(execs)]
            /\ writing # NoWriting =>
                /\ writing.offset = prevProgress.offset
                /\ writing.crc32 = prevProgress.crc32

C2_Witness ==
    /\ op = "sendFirmware" /\ cmd = "Create"
    /\ ObjectIndex = 3 /\ Len(execs) = 2 /\ cur.offset = 2

\* C3: createObject is issued at most MAX_RETRIES times for an object; after
\* MAX_RETRIES failed attempts the call is over and rejected with the last
\* error; a call that resolved after fewer failed attempts resolved with the
\* progress of the attempt that succeeded.
C3_RetryBound ==
    /\ creates <= MAX_RETRIES
    /\ attempts <= MAX_RETRIES
    /\ cur.unit = "create" /\ attempts = MAX_RETRIES =>
        /\ op = "none"
        /\ result.outcome = "rejected"
        /\ result.error = stepError
    /\ Sending /\ cur.unit = "create" /\ result.outcome = "resolved" /\ op = "none" =>
        /\ attempts < MAX_RETRIES
        /\ creates = attempts + 1
        /\ result.progress = WriterProgress(writing)
        /\ result.progress.offset = OrZero(cur.offset) + Len(cur.data)
        /\ result.progress.crc32 = Crc32(cur.data, OrZero(cur.crc32))
        /\ crcResp = result.progress

C3_Witness ==
    /\ op = "none" /\ result.op = "sendFirmware" /\ result.outcome = "rejected"
    /\ result.error = COMMAND_ERROR /\ attempts = MAX_RETRIES /\ creates = MAX_RETRIES
    /\ Len(execs) = 1

\* C4: a step that fails with ABORTED or NOTIFICATION_TIMEOUT ends the call at
\* once, whatever the attempt count: the call is rejected with that error, no
\* command is outstanding and the writer is given nothing more.
C4_TerminalErrors ==
    stepError \in Terminal =>
        /\ op = "none" /\ pc = "idle" /\ cmd = "none"
        /\ result.outcome = "rejected"
        /\ result.error = stepError

C4_Witness ==
    /\ stepError = ABORTED /\ result.op = "sendFirmware"
    /\ cur.unit = "create" /\ attempts = 1 /\ touched.packet

\* C5 as claimed: every object transfer that fails with another error than
\* ABORTED and NOTIFICATION_TIMEOUT, the completion of a resumed range
\* included, is only given up after MAX_RETRIES attempts.
C5_EveryTransferRetried ==
    /\ op = "none" /\ Sending /\ result.outcome = "rejected"
    /\ cur.unit # "none" /\ result.error \notin Terminal
    => attempts = MAX_RETRIES

\* C5 as amended: an object transfer that begins with createObject is retried
\* after such a failure until MAX_RETRIES attempts were made; the completion of
\* a resumed range is tried once, and any failure of it rejects the call
\* without a createObject.
C5_CreatedTransfersRetried ==
    /\ (/\ op = "none" /\ Sending /\ result.outcome = "rejected"
        /\ cur.unit = "create" /\ result.error \notin Terminal)
       => attempts = MAX_RETRIES
    /\ (/\ op # "none" /\ cur.unit = "create" /\ stepError # NoError)
       => /\ stepError \notin Terminal
          /\ attempts < MAX_RETRIES
          /\ cmd = "Create"
    /\ (cur.unit = "write" /\ stepError # NoError)
       => /\ op = "none"
          /\ result.outcome = "rejected"
          /\ result.error = stepError
          /\ attempts = 0
          /\ creates = 0

C5_Witness ==
    /\ op = "none" /\ result.op = "sendFirmware" /\ result.outcome = "rejected"
    /\ cur.unit = "write" /\ result.error = INVALID_CRC /\ attempts = 0
    /\ touched.checksum

\* C6: a retry issues createObject with the type and size of the first attempt
\* and gives writeObject the data, offset and crc32 of the first attempt, which
\* are the ones the object was started with; a createObject is never issued for
\* an object that lies before an executed one.
C6_RetrySameObject ==
    op # "none" /\ cur.unit = "create" =>
        /\ creating = firstCreate
        /\ creating = [type |-> cur.type, size |-> Len(cur.data)]
        /\ writing # NoWriting =>
            /\ WriteArgs(writing) = WriteArgs(firstWrite)
            /\ WriteArgs(writing) = <<cur.data, cur.type, cur.offset, cur.crc32>>
        /\ cmd = "Create" => \A i \in 1..Len(execs) : execs[i] <= OrZero(cur.offset)

C6_Witness ==
    /\ op = "sendFirmware" /\ cur.unit = "create" /\ attempts = 2
    /\ pc = "packet" /\ writing.offset > 0 /\ firstWrite # NoWriting

\* C7: an init() with a nonzero prnValue enables notifications once and, as
\* soon as they are enabled, has SetPRN outstanding; when it has resolved the
\* engine is initialized, with notifications enabled once and SetPRN sent once.
C7_InitSetsPrnOnce ==
    transportParameters.prnValue # 0 =>
        /\ op = "init" =>
            /\ sent.notify <= 1
            /\ sent.notify = 1 => cmd = "SetPRN"
        /\ (op = "none" /\ result.op = "init" /\ result.outcome = "resolved") =>
            /\ isInitialized
            /\ sent.notify = 1
            /\ sent.setPrn = 1

\* What the code does instead: with a nonzero prnValue no SetPRN is ever
\* outstanding and the engine never becomes initialized.
SetPrnNeverSent ==
    /\ cmd # "SetPRN" /\ sent.setPrn = 0 /\ objectWriter.prn = 0
    /\ transportParameters.prnValue # 0 => ~isInitialized

InitSteps == {"connect", "getControlPointId", "getPacketId", "startNotifications"}

\* C8: once the engine is initialized it stays so, and no step connects,
\* discovers characteristics, enables notifications, sends SetPRN or replaces
\* the control point service and the object writer; an init() then resolves at
\* once, and the other calls go straight to their Select.
C8_InitIdempotent ==
    [][isInitialized =>
        /\ isInitialized'
        /\ controlPointService' = controlPointService
        /\ objectWriter'.gen = objectWriter.gen
        /\ objectWriter'.prn = objectWriter.prn
        /\ pc' \notin InitSteps
        /\ cmd' # "SetPRN"
        /\ sent'.connect <= sent.connect
        /\ sent'.notify <= sent.notify
        /\ sent'.setPrn <= sent.setPrn
        /\ init => op' = "none" /\ result'.op = "init" /\ result'.outcome = "resolved"
        /\ (sendInitPacket \/ sendFirmware \/ getInitPacketState \/ getFirmwareState)
            => cmd' = "Select" /\ sent' = [NothingSent EXCEPT !.select = 1]
      ]_vars

C8_Witness ==
    /\ isInitialized /\ readyAtStart /\ op = "none"
    /\ result.op = "init" /\ result.outcome = "resolved"
    /\ sent = NothingSent /\ controlPointService = 1

\* C9 as claimed: a sendInitPacket that failed with INIT_PACKET_TOO_LARGE sent
\* no command at all before, no Select either.
C9_NoCommandBeforeTooLarge ==
    (result.op = "sendInitPacket" /\ op = "none" /\ result.error = INIT_PACKET_TOO_LARGE)
    => sent.select = 0 /\ touched = NoTraffic

\* C9 as amended: an init packet larger than the maximum object size the
\* device reported in its Select response makes sendInitPacket fail with
\* INIT_PACKET_TOO_LARGE right after that one Select, before any Create,
\* data packet, CalculateChecksum or Execute.
C9_TooLargeAfterSelect ==
    /\ (/\ TheCall = "sendInitPacket"
        /\ state.maximumSize > 0 /\ Len(data) > state.maximumSize)
       => /\ op = "none"
          /\ result.outcome = "rejected"
          /\ result.error = INIT_PACKET_TOO_LARGE
    /\ (result.op = "sendInitPacket" /\ op = "none" /\ result.error = INIT_PACKET_TOO_LARGE)
       => /\ sent.select = 1
          /\ Len(data) > state.maximumSize
          /\ touched = NoTraffic
          /\ cur = NoObject /\ writing = NoWriting /\ creates = 0

C9_Witness ==
    /\ result.op = "sendInitPacket" /\ op = "none"
    /\ result.error = INIT_PACKET_TOO_LARGE
    /\ Len(data) = 2 /\ state.maximumSize = 1 /\ sent.select = 1

\* C10: with a resumable state the first writeObject of the call is given what
\* the state says is left, at the state's offset and crc32, and no createObject
\* was issued before it; createObject is then only issued, after that remainder
\* was executed, for the remaining whole objects (none for the init packet).
\* With a state that is not resumable every writeObject follows a createObject
\* that succeeded for the same type and data length.
C10_ResumeWritesRemainderFirst ==
    (Sending /\ cur.unit # "none") =>
        /\ state.isResumable =>
            /\ cur.unit = "write" =>
                /\ ~touched.create /\ creates = 0
                /\ op # "none" => execs = <<>>
                /\ writing.data = (IF TheCall = "sendInitPacket"
                                   THEN state.remainingData
                                   ELSE state.remainingPartialObject)
                /\ writing.offset = state.offset
                /\ writing.crc32 = state.crc32
                /\ writing.pos <= Len(writing.data)
            /\ cur.unit = "create" =>
                /\ TheCall = "sendFirmware"
                /\ Len(execs) >= 1
                /\ execs[1] = state.offset + Len(state.remainingPartialObject)
                /\ cur.data = state.remainingObjects[ObjectIndex]
            /\ TheCall = "sendInitPacket" => ~touched.create
        /\ ~state.isResumable =>
            /\ cur.unit = "create"
            /\ writing # NoWriting =>
                /\ created = [type |-> writing.type, size |-> Len(writing.data)]
                /\ created = creating

C10_Witness ==
    /\ op = "sendFirmware" /\ state.isResumable /\ cmd = "Create"
    /\ Len(state.remainingPartialObject) = 1 /\ state.offset = 1
    /\ execs = <<2>> /\ cur.offset = 2

\* The objects of a sequence, joined.
RECURSIVE Flatten(_)
Flatten(objects) ==
    IF objects = <<>> THEN <<>> ELSE Head(objects) \o Flatten(Tail(objects))

\* The Select response that just arrived reports a nonzero offset with a
\* checksum that is not the one of the payload's first offset bytes.
Mismatch ==
    /\ selected # NoProgress
    /\ selected.offset > 0
    /\ selected.crc32 # Crc32(Slice(data, 0, selected.offset), 0)

\* C11: a Select response with a nonzero offset and a checksum that does not
\* match the payload gives sendInitPacket and sendFirmware a state that is not
\* resumable and has the whole payload left: the call goes on with the
\* createObject of the first object at offset 0 and crc32 0.  In every call
\* whose state is not resumable the first object is written at offset 0 with
\* crc32 0, and the object in progress together with the objects still to do
\* are exactly the payload from the offset of that object to its end.
C11_MismatchRestartsFromZero ==
    /\ (Mismatch /\ Sending) =>
        /\ ~state.isResumable
        /\ state.offset = 0 /\ state.crc32 = 0
        /\ state.remainingData = data
        /\ state.remainingPartialObject = <<>>
        /\ TheCall = "sendFirmware" => Flatten(state.remainingObjects) = data
        /\ stepError = NoError =>
            /\ cmd = "Create" /\ creates = 1 /\ cur.unit = "create"
            /\ OrZero(cur.offset) = 0 /\ OrZero(cur.crc32) = 0
            /\ Flatten(<<cur.data>> \o todo) = data
    /\ (Sending /\ cur.unit # "none" /\ ~state.isResumable) =>
        /\ execs = <<>> =>
            /\ OrZero(cur.offset) = 0 /\ OrZero(cur.crc32) = 0
            /\ writing # NoWriting =>
                OrZero(writing.offset) = 0 /\ OrZero(writing.crc32) = 0
        /\ Flatten(<<cur.data>> \o todo) = Slice(data, OrZero(cur.offset), Len(data))
        /\ (op = "none" /\ result.outcome = "resolved") =>
            result.progress.offset = Len(data)

C11_Witness ==
    /\ Mismatch /\ op = "sendFirmware" /\ cmd = "Create"
    /\ selected.offset = 2 /\ Len(data) = 3 /\ Len(todo) = 2
    /\ OrZero(cur.offset) = 0 /\ creating.size = 1

\* C12: the state sendFirmware gets for a Select response whose checksum
\* matches the payload starts at the reported offset, and the bytes before it,
\* its partial object and its remaining objects join up to the payload.  As
\* long as no step of the call has failed, the bytes written to the data
\* channel are the payload from the state's offset up to where the writer is,
\* in payload order and each once; such a call ends resolved, having written
\* the payload from that offset to its end, with the progress offset at the
\* length of the payload.
C12_SendsExactlyTheRest ==
    (TheCall = "sendFirmware" /\ cur.unit # "none") =>
        /\ (selected # NoProgress /\ ~Mismatch) => state.offset = selected.offset
        /\ Slice(data, 0, state.offset) \o state.remainingPartialObject
              \o Flatten(state.remainingObjects) = data
        /\ wire.clean =>
            /\ wire.bytes = Slice(data, state.offset, state.offset + Len(wire.bytes))
            /\ state.offset + Len(wire.bytes) =
                  (IF writing = NoWriting THEN OrZero(cur.offset)
                   ELSE OrZero(writing.offset) + writing.pos)
            /\ op = "none" =>
                /\ result.outcome = "resolved"
                /\ wire.bytes = Slice(data, state.offset, Len(data))
                /\ result.progress.offset = Len(data)
                /\ result.progress.crc32 = Crc32(data, 0)

C12_Witness ==
    /\ op = "none" /\ result.op = "sendFirmware" /\ result.outcome = "resolved"
    /\ wire.clean /\ state.isResumable /\ state.offset = 1 /\ Len(data) = 3
    /\ wire.bytes = <<0, 1>> /\ Len(execs) = 2 /\ state.maximumSize = 2

\* The call resumes a payload of which the device has executed objects.
Resuming == prior # NoProgress /\ TheCall = "sendFirmware" /\ cur.unit # "none"

\* C13 as claimed: a sendFirmware that follows a failed one with the same
\* payload issues no createObject and writes no packet before the end of the
\* objects the device has executed.
C13_NeverBeforeExecuted ==
    Resuming =>
        /\ OrZero(cur.offset) >= prior.offset
        /\ writing # NoWriting => OrZero(writing.offset) >= prior.offset

\* C13 as amended: when the device reports a checksum that matches the
\* payload, the call is resumed at the reported offset, which is not before
\* the end of the executed objects: no object is created and no packet written
\* before it, and a call in which no step fails resolves with the whole
\* payload on the device.  When the reported checksum does not match, the
\* call creates the first object of the payload again at offset 0.
C13_ResumesWhenCrcMatches ==
    Resuming =>
        /\ state.isResumable =>
            /\ state.offset >= prior.offset
            /\ OrZero(cur.offset) >= prior.offset
            /\ writing # NoWriting => OrZero(writing.offset) >= prior.offset
            /\ (wire.clean /\ op = "none") =>
                /\ result.outcome = "resolved"
                /\ result.progress.offset = Len(data)
                /\ wire.bytes = Slice(data, state.offset, Len(data))
        /\ ~state.isResumable =>
            /\ cur.unit = "create"
            /\ execs = <<>> => OrZero(cur.offset) = 0
        /\ Mismatch => ~state.isResumable /\ selected.offset > prior.offset

C13_Witness ==
    /\ prior.offset = 2 /\ state.isResumable /\ state.offset = 2 /\ Len(data) = 3
    /\ op = "none" /\ result.op = "sendFirmware" /\ result.outcome = "resolved"
    /\ wire.clean /\ wire.bytes = <<1>> /\ creates = 1 /\ Len(execs) = 2

\* C14 as claimed: a sendInitPacket or sendFirmware during which abort() was
\* called on the initialized engine never resolves.
C14_AbortedNeverResolves ==
    (aborting /\ op = "none" /\ Sending) => result.outcome # "resolved"

\* C14 as amended: abort() only sets the writer's flag.  While the flag is set
\* and the writer is about to send a packet or waits for a receipt, the one
\* step the call takes is to end, rejected with ABORTED, without another
\* packet and without retry, and the flag is taken down.  A call during which
\* abort() was called and which ended otherwise (resolved, or rejected with
\* the error of another step) has left the flag up: it met no packet and no
\* receipt after the abort().
C14_AbortsAtNextPacket ==
    /\ [](/\ stepError = ABORTED =>
              /\ op = "none" /\ result.outcome = "rejected" /\ result.error = ABORTED
          /\ (aborting /\ op = "none" /\ Sending /\ result.error # ABORTED) =>
              /\ objectWriter.abort
              /\ pc = "idle" /\ cmd = "none")
    /\ [][(objectWriter.abort /\ pc \in {"packet", "receipt"}) =>
            \/ UNCHANGED <<ctl, xfer>>
            \/ /\ op' = "none" /\ pc' = "idle" /\ cmd' = "none"
               /\ result'.op = op
               /\ result'.outcome = "rejected"
               /\ result'.error = ABORTED
               /\ stepError' = ABORTED
               /\ ~objectWriter'.abort
               /\ writing' = writing /\ wire'.bytes = <<>>
               /\ creates' = creates
       ]_vars

C14_Witness ==
    /\ aborting /\ op = "none" /\ result.op = "sendFirmware"
    /\ result.outcome = "rejected" /\ result.error = ABORTED
    /\ ~objectWriter.abort /\ execs = <<>> /\ attempts = 1 /\ creates = 1
    /\ writing.pos = 1 /\ Len(writing.data) = 2

\* C15: a sendInitPacket or sendFirmware that was rejected was rejected with
\* the error of the step that failed last, in the very step in which that step
\* failed; from then on no command is outstanding and nothing is written
\* until another call begins: the objects that were still to do stay undone.
C15_LastErrorDelivered ==
    /\ []((op = "none" /\ Sending /\ result.outcome = "rejected") =>
            /\ stepError # NoError
            /\ result.error = stepError
            /\ pc = "idle" /\ cmd = "none")
    /\ [][(op # "none" /\ Sending /\ op' = "none" /\ result'.outcome = "rejected") =>
            /\ result'.error = stepError'
            /\ stepError' # NoError
            /\ todo' = todo /\ execs' = execs /\ creates' = creates
       ]_vars
    /\ [][(/\ op = "none" /\ Sending /\ result.outcome = "rejected"
            /\ op' = "none" /\ result'.op = result.op) =>
            UNCHANGED <<ctl, xfer, hist, wire, emitted>>
       ]_vars

C15_Witness ==
    /\ op = "none" /\ result.op = "sendFirmware" /\ result.outcome = "rejected"
    /\ result.error = WRITE_ERROR /\ attempts = MAX_RETRIES
    /\ Len(todo) = 2 /\ execs = <<>> /\ touched.packet /\ ~touched.execute

\* C16: when the response to CalculateChecksum arrives, the attempt fails with
\* INVALID_OFFSET if its offset is not the one the writer reached, whatever
\* its crc32, and with INVALID_CRC if the offset is the writer's and the crc32
\* is not; Execute is issued exactly when both are the writer's.  Every
\* writeObject that resolved, that of a resumed remainder included, was
\* followed by a CalculateChecksum.
C16_CrossCheckVerdicts ==
    /\ [][(ChecksumAnswered /\ crcResp' # NoProgress) =>
            /\ crcResp'.offset # progress.offset => stepError' = INVALID_OFFSET
            /\ (crcResp'.offset = progress.offset /\ crcResp'.crc32 # progress.crc32)
                 => stepError' = INVALID_CRC
            /\ (crcResp' = progress) <=> (cmd' = "Execute" /\ stepError' = NoError)
            /\ stepError' # NoError =>
                 /\ execs' = execs
                 /\ (op' = "none" /\ result'.error = stepError') \/ cmd' = "Create"
       ]_vars
    /\ []((Sending /\ cur.unit # "none" /\ progress # NoProgress) =>
            /\ touched.checksum
            /\ \/ cmd = "CalculateChecksum"
               \/ crcResp # NoProgress
               \/ op = "none" /\ stepError \in CommandErrors)

C16_Witness ==
    /\ op = "none" /\ result.op = "sendFirmware" /\ result.error = INVALID_OFFSET
    /\ cur.unit = "write" /\ progress.offset = 2
    /\ crcResp.offset = 3 /\ crcResp.crc32 # progress.crc32

\* C17 as claimed: during a sendFirmware the offset of the progressUpdate
\* events and the offset at which the object in progress starts never go down.
C17_ProgressNeverDecreases ==
    [][(op = "sendFirmware" /\ op' = op) =>
        /\ emitted' >= emitted
        /\ OrZero(cur'.offset) >= OrZero(cur.offset)
      ]_vars

\* C17 as amended: during a sendFirmware the offset at which the object in
\* progress starts never goes down, and every progressUpdate event carries an
\* offset within the object in progress, beyond its start; the offset of an
\* event is below that of the event before it only for the first packet of a
\* retried attempt, which writes the object again from its start.
C17_ProgressRestartsOnRetry ==
    [][(op = "sendFirmware" /\ op' = op) =>
        /\ OrZero(cur'.offset) >= OrZero(cur.offset)
        /\ emitted' # emitted =>
            /\ pc = "packet" /\ cur' = cur
            /\ emitted' = OrZero(writing.offset) + writing'.pos
            /\ emitted' > OrZero(cur.offset)
            /\ emitted' <= OrZero(cur.offset) + Len(cur.data)
            /\ \A i \in 1..Len(execs) : execs[i] < emitted'
        /\ emitted' < emitted => attempts > 0 /\ writing.pos = 0
      ]_vars

C17_Witness ==
    /\ op = "sendFirmware" /\ pc = "packet" /\ attempts = 1 /\ writing.pos = 0
    /\ Len(writing.data) = 2 /\ objectWriter.mtuSize = 1
    /\ emitted = OrZero(writing.offset) + 2

\* The waitForDisconnection call is pending.
Pending == disconnection.status = "pending"

\* C18: waitForDisconnection settles once.  Called with no connected target it
\* is resolved in that step.  Called with a connected target it is pending for
\* the instanceId of that device; while it is pending a deviceDisconnected of
\* that device resolves it, the timeout rejects it with DISCONNECTION_TIMEOUT,
\* a deviceDisconnected of another device changes nothing of it, and no other
\* step settles it.
C18_SettlesOnce ==
    /\ [](/\ disconnection.settled <= 1
          /\ Pending <=> op = "waitForDisconnection"
          /\ Pending => disconnection.settled = 0 /\ disconnection.instanceId = TargetId
          /\ disconnection.status \in {"resolved", "rejected"} =>
                disconnection.settled = 1)
    /\ [][waitForDisconnection =>
            IF connected
            THEN Pending' /\ op' = "waitForDisconnection"
            ELSE /\ disconnection'.status = "resolved"
                 /\ op' = "none" /\ result'.op = "waitForDisconnection"
                 /\ result'.outcome = "resolved"
       ]_vars
    /\ [][Pending =>
            /\ Disconnected(disconnection.instanceId) =>
                 /\ disconnection'.status = "resolved"
                 /\ op' = "none" /\ result'.outcome = "resolved"
                 /\ result'.op = "waitForDisconnection"
            /\ disconnectionTimeout =>
                 /\ disconnection'.status = "rejected"
                 /\ op' = "none" /\ result'.outcome = "rejected"
                 /\ result'.error = DISCONNECTION_TIMEOUT
            /\ Disconnected(OtherId) => UNCHANGED <<disconnection, ctl, timers, listeners>>
            /\ disconnection' # disconnection =>
                 \/ Disconnected(disconnection.instanceId)
                 \/ disconnectionTimeout
       ]_vars

C18_Witness ==
    /\ disconnection = [status |-> "resolved", instanceId |-> TargetId, settled |-> 1]
    /\ op = "none" /\ result.op = "waitForDisconnection" /\ result.outcome = "resolved"
    /\ ~connected /\ isInitialized

\* C19: while waitForDisconnection is pending there is one timeout and one
\* deviceDisconnected listener of it; in every other state there is none, so
\* that once it has settled no timeout can fire and no deviceDisconnected
\* changes how it settled.
C19_NoTimerNoListenerLeft ==
    /\ [](/\ Pending => timers = 1 /\ listeners = 1
          /\ ~Pending => timers = 0 /\ listeners = 0
          /\ ~Pending => ~ENABLED disconnectionTimeout)
    /\ [][(~Pending /\ deviceDisconnected) =>
            UNCHANGED <<disconnection, ctl, timers, listeners>>
       ]_vars

C19_Witness ==
    /\ disconnection = [status |-> "rejected", instanceId |-> TargetId, settled |-> 1]
    /\ result.op = "waitForDisconnection" /\ result.error = DISCONNECTION_TIMEOUT
    /\ timers = 0 /\ listeners = 0 /\ connected

Commands == {"Select", "Create", "SetPRN", "CalculateChecksum", "Execute"}

\* The step issues a control point command: another one than the one that was
\* outstanding, or createObject once more.
Issues == cmd' # "none" /\ (cmd' # cmd \/ creates' = creates + 1)

\* The step is the answer (response, error or timeout) to the command that was
\* outstanding.
Answers ==
    \/ cmd = "Select" /\ SelectAnswered
    \/ cmd = "Create" /\ CreateAnswered
    \/ cmd = "CalculateChecksum" /\ ChecksumAnswered
    \/ cmd = "Execute" /\ ExecuteAnswered

\* C21: a call has at most one control point command outstanding, and while
\* one is outstanding the call waits for nothing but its answer: it is in no
\* step of init and the writer has neither a packet to send nor a receipt to
\* wait for.  A command is only issued by the step that begins the call, by
\* the step in which the collaborator the call was waiting for answers or
\* fails, no command being outstanding, or by the step that answers the
\* outstanding command; no other step changes the outstanding command.  A
\* data packet is only written while no command is outstanding, and the step
\* that writes it issues none.
C21_OneCommandAtATime ==
    /\ [](/\ cmd \in Commands \cup {"none"}
          /\ cmd # "none" <=> pc = "command"
          /\ pc \in {"packet", "receipt"} \cup InitSteps => cmd = "none"
          /\ op = "none" => cmd = "none" /\ pc = "idle")
    /\ [][/\ Issues => cmd = "none" \/ Answers
          /\ (cmd # "none" /\ (cmd' # cmd \/ Issues)) => Answers
          /\ (\/ writing'.pos > writing.pos
              \/ (touched'.packet /\ ~touched.packet)
              \/ (wire'.bytes # wire.bytes /\ wire'.bytes # <<>>)) =>
                /\ pc = "packet" /\ cmd = "none" /\ cmd' = "none"
                /\ pc' \in {"packet", "receipt"}
                /\ sent' = sent /\ creates' = creates
       ]_vars

C21_Witness ==
    /\ op = "sendFirmware" /\ cmd = "Create" /\ attempts = 1 /\ creates = 2
    /\ stepError = WRITE_ERROR /\ touched.packet /\ Len(execs) = 1
    /\ writing = NoWriting

\* The call that ended last was rejected because notifications could not be
\* enabled.
NotificationsFailed ==
    result.outcome = "rejected" /\ result.error = NOTIFICATION_START_ERROR

\* C22: when startCharacteristicsNotifications reports an error, the call
\* that waited for it (init, or a call that began with init) is rejected in
\* that step with NOTIFICATION_START_ERROR, the engine is not initialized, and
\* the call has sent neither SetPRN nor Select nor anything of a transfer.
\* The engine stays uninitialized until another call begins; an init,
\* sendInitPacket or sendFirmware that begins then goes through the steps of
\* init again (connecting only if the device is not connected), with no
\* command outstanding, and has its Select outstanding only after it has
\* enabled notifications itself and made the engine initialized.
C22_FailedNotificationsLeaveUninitialized ==
    /\ []((op = "none" /\ NotificationsFailed) =>
            /\ ~isInitialized
            /\ stepError = NOTIFICATION_START_ERROR
            /\ sent.setPrn = 0 /\ sent.select = 0
            /\ transportParameters.prnValue = 0 => sent.notify = 0
            /\ touched = NoTraffic /\ cmd = "none" /\ pc = "idle")
    /\ []((NotificationsFailed /\ op # "none" /\ cmd # "none") =>
            /\ ~readyAtStart
            /\ cmd = "Select" => isInitialized /\ sent.notify = 1)
    /\ [][(pc = "startNotifications" /\ stepError' = NOTIFICATION_START_ERROR) =>
            /\ op' = "none" /\ result'.op = op /\ NotificationsFailed'
            /\ ~isInitialized /\ ~isInitialized'
            /\ sent' = sent
       ]_vars
    /\ [][(op = "none" /\ NotificationsFailed
            /\ (init \/ sendInitPacket \/ sendFirmware)) =>
            /\ ~readyAtStart' /\ ~isInitialized'
            /\ cmd' = "none"
            /\ pc' = IF connected THEN "getControlPointId" ELSE "connect"
            /\ sent'.notify = 0 /\ sent'.select = 0
       ]_vars

C22_Witness ==
    /\ NotificationsFailed /\ result.op = "init"
    /\ op = "sendFirmware" /\ cmd = "Select" /\ isInitialized
    /\ controlPointService = 2 /\ sent.notify = 1 /\ sent.connect = 0

\* The call is at the remainder of a resumable state, and nothing is left of it.
ZeroRemainder ==
    Sending /\ state.isResumable /\ cur.unit = "write" /\ cur.data = <<>>

\* C23: with a resumable state whose remainder is empty (the init packet at
\* its full length, the firmware at an object boundary or at its end) the
\* answer to Select is followed at once by CalculateChecksum for the state's
\* offset and crc32: no createObject is issued and no packet written for the
\* remainder, and no progressUpdate event with an offset is emitted.  Execute
\* is issued once, after the cross-check, and executes the object at the
\* state's offset.  When it has succeeded sendInitPacket resolves; sendFirmware
\* resolves if no object is left and otherwise issues createObject for the
\* first remaining object, at the state's offset and crc32.  Every object
\* sendFirmware creates with such a state comes after that Execute.
C23_ZeroRemainderGoesToExecute ==
    /\ [](ZeroRemainder =>
            /\ ~touched.create /\ ~touched.packet /\ creates = 0
            /\ wire.bytes = <<>> /\ emitted = NoEvent
            /\ writing.data = <<>> /\ writing.pos = 0
            /\ pc \notin {"packet", "receipt"}
            /\ touched.checksum
            /\ progress = [offset |-> state.offset, crc32 |-> state.crc32]
            /\ op # "none" => cmd \in {"CalculateChecksum", "Execute"}
            /\ execs \in {<<>>, <<state.offset>>}
            /\ op # "none" => execs = <<>>
            /\ TheCall = "sendInitPacket" => state.offset = Len(data))
    /\ []((/\ TheCall = "sendFirmware" /\ state.isResumable
            /\ state.remainingPartialObject = <<>> /\ cur.unit = "create") =>
            /\ Len(execs) >= 1 /\ execs[1] = state.offset
            /\ cur.data = state.remainingObjects[ObjectIndex]
            /\ OrZero(cur.offset) >= state.offset
            /\ wire.clean =>
                 wire.bytes = Slice(data, state.offset, state.offset + Len(wire.bytes)))
    /\ [][(SelectAnswered /\ ZeroRemainder' /\ stepError' = NoError) =>
            cmd' = "CalculateChecksum" /\ execs' = <<>>
       ]_vars
    /\ [][(ZeroRemainder /\ cmd = "Execute" /\ ExecuteAnswered /\ stepError' = NoError) =>
            /\ execs' = <<state.offset>>
            /\ IF op = "sendInitPacket" \/ state.remainingObjects = <<>>
               THEN /\ op' = "none" /\ result'.outcome = "resolved"
                    /\ result'.progress.offset = Len(data)
                    /\ ~touched'.create /\ ~touched'.packet
               ELSE /\ cmd' = "Create" /\ creates' = 1
                    /\ cur'.data = state.remainingObjects[1]
                    /\ cur'.offset = state.offset /\ cur'.crc32 = state.crc32
                    /\ creating' = [type |-> DATA, size |-> Len(state.remainingObjects[1])]
       ]_vars
    /\ [][(ZeroRemainder /\ cmd = "Execute" /\ stepError' # NoError) =>
            op' = "none" /\ result'.outcome = "rejected" /\ ~touched'.create
       ]_vars

C23_Witness ==
    /\ op = "sendFirmware" /\ cmd = "Create" /\ state.isResumable
    /\ state.remainingPartialObject = <<>> /\ state.offset = 2 /\ Len(data) = 3
    /\ state.maximumSize = 2 /\ execs = <<2>> /\ creates = 1 /\ ~touched.packet

====
